---- MODULE Spec2Model ----
(***************************************************************************)
(* A model of the EventEmitter of es2015-eventemitter3 (src/index.es5.js   *)
(* and its ES2015 original): the registry this._events, the operations     *)
(* on/once/addListener, off/removeListener, removeAllListeners, emit and   *)
(* listeners, and the synchronous, re-entrant dispatch loop of emit.       *)
(*                                                                         *)
(* JavaScript values are modelled by strings: "this" is the emitter,       *)
(* "undefined" an absent argument, "TypeError" a raised TypeError.  An     *)
(* event identifier is a sequence of character tokens, so that the prefix  *)
(* test of getEventName is computed and not assumed.                       *)
(***************************************************************************)
EXTENDS Integers, Sequences, FiniteSets, TLC

VARIABLES
    events,     \* own properties of this._events: key -> array of Listener
    proto,      \* TRUE when this._events inherits from Object.prototype
    prefixed,   \* this.prefixed: <<>> models false, <<"~">> the prefix '~'
    stack,      \* the emit calls in progress, the innermost last
    last,       \* the last top-level call, what it returned and removed
    nextId,     \* identity of the next Listener object created
    log,        \* invocations made by the loop of the outermost emit call
    fired,      \* per one-shot Listener: its invocations since that call began
    touched     \* a callback of the emit in progress has called the emitter

vars == <<events, proto, prefixed, stack, last, nextId, log, fired, touched>>

-----------------------------------------------------------------------------
(* Bounds of the model *)

\* Listener objects created in one behaviour.
MaxRegs == 2

\* emit calls nested in each other (a callback that emits).
MaxDepth == 2

-----------------------------------------------------------------------------
(* JavaScript values *)

This == "this"

Undefined == "undefined"

TypeError == "TypeError"

\* Callbacks: "f" never calls the emitter, "h" may call it once whenever it is
\* invoked; Undefined is a registration call made without a callback.
Passive == "f"

Active == "h"

Callbacks == {Passive, Active}

FnArgs == Callbacks \cup {Undefined}

Contexts == {"c1"}

CtxArgs == Contexts \cup {Undefined}

\* The (callback, context) pairs registration calls are made with: each
\* callback without a context, the passive one with a context as well.
RegArgs ==
    {<<fn, Undefined>> : fn \in FnArgs} \cup {<<Passive, ctx>> : ctx \in Contexts}

\* Event identifiers: an ordinary name and a name Object.prototype defines.
EvX == <<"x">>

EvToString == <<"toString">>

Events == {EvX, EvToString}

\* Argument lists given to emit after the event identifier.
ArgLists == {<<1>>}

\* Property names every plain object ({}) inherits, with the length property
\* of the inherited value (a function's arity).
ObjectPrototypeNames == {<<"toString">>, <<"constructor">>}

InheritedLength(key) == IF key = <<"constructor">> THEN 1 ELSE 0

Truthy(v) == v # Undefined

-----------------------------------------------------------------------------
(* getEventName and the lookup this._events[ev] *)

StartsWith(ev, p) == Len(ev) >= Len(p) /\ SubSeq(ev, 1, Len(p)) = p

getEventName(pfx, ev) ==
    IF pfx # <<>>
    THEN IF StartsWith(ev, pfx) THEN ev ELSE pfx \o ev
    ELSE ev

\* A registry is [events |-> own properties, proto |-> inherits, prefixed]
Registry == [events |-> events, proto |-> proto, prefixed |-> prefixed]

\* this._events[key]: the own array, else the inherited value, else undefined.
Lookup(R, key) ==
    IF key \in DOMAIN R.events
    THEN [kind |-> "array", arr |-> R.events[key], length |-> Len(R.events[key])]
    ELSE IF R.proto /\ key \in ObjectPrototypeNames
         THEN [kind |-> "inherited", arr |-> <<>>, length |-> InheritedLength(key)]
         ELSE [kind |-> "undefined", arr |-> <<>>, length |-> 0]

Has(R, key) == Lookup(R, key).kind # "undefined"

\* this._events[key] = arr
SetKey(R, key, arr) ==
    [R EXCEPT !.events = [k \in (DOMAIN R.events) \cup {key} |->
                            IF k = key THEN arr ELSE R.events[k]]]

\* delete this._events[key]
DeleteKey(R, key) ==
    [R EXCEPT !.events = [k \in (DOMAIN R.events) \ {key} |-> R.events[k]]]

Keys(R) == DOMAIN R.events

\* The Listener objects an array holds, and those the registry holds.
IdsOf(arr) == {arr[k].id : k \in 1..Len(arr)}

LiveIds(R) == UNION {IdsOf(R.events[k]) : k \in DOMAIN R.events}

\* The result of a call: the registry after it, the value returned (TypeError:
\* the call raised), and the keys whose array is still the array object it was
\* before the call.  An emit in progress holds a reference to the array it read
\* (var listeners = this._events[ev]), so it matters whether a call changes that
\* object (push) or binds the key to a new one.
Result(R, ret, same) == [reg |-> R, ret |-> ret, same |-> same]

-----------------------------------------------------------------------------
(* Listener and _on *)

Listener(id, fn, ctx, once) == [id |-> id, fn |-> fn, ctx |-> ctx, once |-> once]

\* ctx || this
CtxOrThis(ctx) == IF Truthy(ctx) THEN ctx ELSE This

\* _on that puts the new record in front (unshift for push).
OnCallUnshift(R, id, ev, fn, ctx, once) ==
    LET key == getEventName(R.prefixed, ev)
        listener == Listener(id, fn, CtxOrThis(ctx), once)
        cur == Lookup(R, key)
    IN  IF cur.kind = "undefined"
        THEN Result(SetKey(R, key, <<listener>>), This, Keys(R))
        ELSE IF cur.kind = "array"
             THEN Result(SetKey(R, key, <<listener>> \o cur.arr), This, Keys(R))
             ELSE Result(R, TypeError, Keys(R))

\* _on(ev, fn, ctx, once); id is the identity of the Listener object created.
\* Pushing onto an inherited value (no push method) raises a TypeError.
OnCall(R, id, ev, fn, ctx, once) ==
    LET key == getEventName(R.prefixed, ev)
        listener == Listener(id, fn, CtxOrThis(ctx), once)
        cur == Lookup(R, key)
    IN  IF cur.kind = "undefined"
        THEN Result(SetKey(R, key, <<listener>>), This, Keys(R))
        ELSE IF cur.kind = "array"
             THEN Result(SetKey(R, key, Append(cur.arr, listener)), This, Keys(R))
             ELSE Result(R, TypeError, Keys(R))

\* addListener(ev, fn, ctx): this._on(ev, fn, ctx)
AddListenerCall(R, id, ev, fn, ctx) == OnCall(R, id, ev, fn, ctx, FALSE)

-----------------------------------------------------------------------------
(* off *)

\* The test of off's loop without its clause on the context.
RetainedAnyCtx(l, fn, ctx, once) ==
    \/ l.fn # fn
    \/ (once /\ ~l.once)

\* The test of off's loop: the record is kept.
Retained(l, fn, ctx, once) ==
    \/ l.fn # fn
    \/ (once /\ ~l.once)
    \/ (Truthy(ctx) /\ l.ctx # ctx)

Filter(arr, fn, ctx, once) ==
    LET F[n \in 0..Len(arr)] ==
            IF n = 0 THEN <<>>
            ELSE IF Retained(arr[n], fn, ctx, once)
                 THEN Append(F[n - 1], arr[n])
                 ELSE F[n - 1]
    IN  F[Len(arr)]

\* The value off returns when the event has no listeners (a bare return).
OffNoListeners == Undefined

\* off that removes the records from the array itself (splice) instead of
\* building a new one: every emit in progress sees its array shrink.
OffCallInPlace(R, ev, fn, ctx, once) ==
    LET key == getEventName(R.prefixed, ev)
        cur == Lookup(R, key)
        kept == IF Truthy(fn) THEN Filter(cur.arr, fn, ctx, once) ELSE <<>>
    IN  IF cur.kind = "undefined"
        THEN Result(R, OffNoListeners, Keys(R))
        ELSE IF cur.kind = "inherited" /\ Truthy(fn) /\ cur.length > 0
             THEN Result(R, TypeError, Keys(R))
             ELSE IF Len(kept) > 0
                  THEN Result(SetKey(R, key, kept), This, Keys(R))
                  ELSE Result(DeleteKey(R, key), This, Keys(R) \ {key})

\* off that binds the key to the new array also when no record is kept.
OffCallKeepsEmpty(R, ev, fn, ctx, once) ==
    LET key == getEventName(R.prefixed, ev)
        cur == Lookup(R, key)
        kept == IF Truthy(fn) THEN Filter(cur.arr, fn, ctx, once) ELSE <<>>
    IN  IF cur.kind = "undefined"
        THEN Result(R, OffNoListeners, Keys(R))
        ELSE IF cur.kind = "inherited" /\ Truthy(fn) /\ cur.length > 0
             THEN Result(R, TypeError, Keys(R))
             ELSE Result(SetKey(R, key, kept), This, Keys(R) \ {key})

\* off(ev, fn, ctx, once).  The records kept are collected in a new array
\* (events), which replaces the old one; the old array is left as it was.  On
\* an inherited value of length > 0 the loop reads a property of undefined,
\* which raises a TypeError.
OffCall(R, ev, fn, ctx, once) ==
    LET key == getEventName(R.prefixed, ev)
        cur == Lookup(R, key)
        kept == IF Truthy(fn) THEN Filter(cur.arr, fn, ctx, once) ELSE <<>>
    IN  IF cur.kind = "undefined"
        THEN Result(R, OffNoListeners, Keys(R))
        ELSE IF cur.kind = "inherited" /\ Truthy(fn) /\ cur.length > 0
             THEN Result(R, TypeError, Keys(R))
             ELSE IF Len(kept) > 0
                  THEN Result(SetKey(R, key, kept), This, Keys(R) \ {key})
                  ELSE Result(DeleteKey(R, key), This, Keys(R) \ {key})

\* removeListener that passes on its first three arguments only.
RemoveListenerDropsOnce(R, ev, fn, ctx, once) == OffCall(R, ev, fn, ctx, FALSE)

\* removeListener(ev, fn, ctx, once): this.off(ev, fn, ctx, once)
RemoveListenerCall(R, ev, fn, ctx, once) == OffCall(R, ev, fn, ctx, once)

-----------------------------------------------------------------------------
(* removeAllListeners *)

\* The object that replaces this._events: {} inherits from Object.prototype.
ClearedRegistry(R) == [R EXCEPT !.events = <<>>, !.proto = TRUE]

\* removeAllListeners called without an argument: ev defaults to false.  The
\* empty string, falsy as well, takes the same branch.
NoEvent == <<>>

\* removeAllListeners(ev)
RemoveAllCall(R, ev) ==
    IF ev # NoEvent
    THEN LET key == getEventName(R.prefixed, ev)
         IN  IF Has(R, key) THEN Result(DeleteKey(R, key), This, Keys(R) \ {key})
                            ELSE Result(R, This, Keys(R))
    ELSE Result(ClearedRegistry(R), This, {})

-----------------------------------------------------------------------------
(* listeners *)

FnsOf(arr) == [k \in 1..Len(arr) |-> arr[k].fn]

\* listeners(ev, exists): val is "true"/"false" in existence mode, "array" with
\* the callbacks in list otherwise.  An empty key is falsy; reading the
\* elements of an inherited value of length > 0 raises a TypeError.
ListenersCall(R, ev, exists) ==
    LET key == getEventName(R.prefixed, ev)
        cur == Lookup(R, key)
    IN  IF exists
        THEN [val |-> IF key # <<>> /\ cur.kind # "undefined" THEN "true" ELSE "false",
              list |-> <<>>]
        ELSE IF key # <<>> /\ cur.kind # "undefined"
             THEN IF cur.kind = "inherited" /\ cur.length > 0
                  THEN [val |-> TypeError, list |-> <<>>]
                  ELSE [val |-> "array", list |-> FnsOf(cur.arr)]
             ELSE [val |-> "array", list |-> <<>>]

-----------------------------------------------------------------------------
(* emit: the frame of a call in progress *)

\* The locals of one emit call: listeners, a reference to the array read from
\* the registry (snap: its elements now; aliased: the registry still holds that
\* very array under key, so that a push shows in snap), its length when the
\* loop began (len), the loop counter (i) and the arguments.  removed is
\* history: the places in listeners of the records not yet invoked by this
\* call that a callback's off has removed from the registry meanwhile.  called
\* is history as well: the records of the event when emit was called.
Frame(key, cur, args) ==
    [key |-> key, snap |-> cur.arr, aliased |-> cur.kind = "array",
     len |-> cur.length, i |-> 0, args |-> args, removed |-> {},
     called |-> cur.arr]

\* The frame after a call with result r: its array has grown with the
\* registry's while it is the same object, and is cut loose from the registry
\* once the key is bound to another array or deleted.
Track(fr, r) ==
    IF fr.aliased /\ fr.key \in r.same
    THEN [fr EXCEPT !.snap = r.reg.events[fr.key]]
    ELSE [fr EXCEPT !.aliased = FALSE]

\* The arguments a callback receives from emit(ev, a1, ..., an): the switch on
\* arguments.length for up to five arguments, the copied array beyond.
\* emit that passes on its five named parameters and nothing beyond them.
ForwardedUpToFive(args) ==
    LET argsLen == Len(args) + 1
    IN  IF argsLen <= 6 THEN args ELSE SubSeq(args, 1, 5)

\* a holds the named parameters a1..a5 (undefined when not supplied); the
\* arguments object is ev followed by args, so that arguments[_i] is args[_i]
\* for _i >= 1 and the slow path's args[_i - 1], in an array counted from 0, is
\* the _i-th element of the array passed to apply.
Forwarded(args) ==
    LET argsLen == Len(args) + 1
        a == [k \in 1..5 |-> IF k <= Len(args) THEN args[k] ELSE Undefined]
    IN  IF argsLen <= 6
        THEN CASE argsLen = 1 -> <<>>
               [] argsLen = 2 -> <<a[1]>>
               [] argsLen = 3 -> <<a[1], a[2]>>
               [] argsLen = 4 -> <<a[1], a[2], a[3]>>
               [] argsLen = 5 -> <<a[1], a[2], a[3], a[4]>>
               [] argsLen = 6 -> <<a[1], a[2], a[3], a[4], a[5]>>
        ELSE [_i \in 1..(argsLen - 1) |-> args[_i]]

\* listeners[i] of the loop; undefined beyond the end of an inherited value.
NextListener(fr) ==
    IF fr.i + 1 <= Len(fr.snap) THEN fr.snap[fr.i + 1]
    ELSE Listener(0, Undefined, Undefined, FALSE)

IsListener(l) == l.id # 0

\* emit that leaves a one-shot record in the registry while its callback runs.
ConsumeOnceLate(R, key, l) == Result(R, This, Keys(R))

\* The off call emit makes for a one-shot record before it invokes it.
ConsumeOnce(R, key, l) ==
    IF l.once THEN OffCall(R, key, l.fn, l.ctx, TRUE) ELSE Result(R, This, Keys(R))

\* What the loop body does before the callback runs: ret is TypeError when the
\* body raises (no record, off raised, or the callback is not a function).
BeforeCall(R, fr) ==
    LET l == NextListener(fr)
        c == ConsumeOnce(R, fr.key, l)
    IN  IF ~IsListener(l) THEN Result(R, TypeError, Keys(R))
        ELSE IF c.ret = TypeError THEN Result(R, TypeError, Keys(R))
        ELSE IF ~Truthy(l.fn) THEN Result(c.reg, TypeError, c.same)
        ELSE Result(c.reg, "call", c.same)

\* The value emit returns when the loop has ended.
EmitDone == "true"

\* The value emit returns when the event has no listeners.
EmitNoListeners == "false"

-----------------------------------------------------------------------------
(* What a callback may do with the emitter when it is invoked *)

NoOp == [op |-> "none", ev |-> <<>>, fn |-> Undefined, ctx |-> Undefined,
         once |-> FALSE, args |-> <<>>]

\* The calls a callback chooses from.  A callback registers a callback without a
\* context and removes by callback alone, or every record of an event.
RegOps ==
    [op : {"on", "once"}, ev : Events, fn : Callbacks, ctx : {Undefined},
     once : {FALSE}, args : {<<>>}]

OffOps ==
    [op : {"off"}, ev : Events, fn : FnArgs, ctx : {Undefined},
     once : {FALSE}, args : {<<>>}]

RemoveAllOps ==
    [op : {"removeAllListeners"}, ev : Events \cup {NoEvent}, fn : {Undefined},
     ctx : {Undefined}, once : {FALSE}, args : {<<>>}]

EmitOps ==
    [op : {"emit"}, ev : Events, fn : {Undefined}, ctx : {Undefined},
     once : {FALSE}, args : ArgLists]

\* The registry calls (everything but emit) applied to a registry.
Apply(R, id, c) ==
    CASE c.op = "on" -> OnCall(R, id, c.ev, c.fn, c.ctx, FALSE)
      [] c.op = "once" -> OnCall(R, id, c.ev, c.fn, c.ctx, TRUE)
      [] c.op = "off" -> OffCall(R, c.ev, c.fn, c.ctx, c.once)
      [] c.op = "removeAllListeners" -> RemoveAllCall(R, c.ev)
      [] OTHER -> Result(R, Undefined, Keys(R))

IsReg(c) == c.op \in {"on", "once"}

\* History: the records of frame fr not yet invoked that call c, made by a
\* callback, has removed from the registry (before: R, after: R2).
NoteRemoved(fr, c, R, R2) ==
    IF c.op = "off" /\ getEventName(R.prefixed, c.ev) = fr.key
    THEN [fr EXCEPT !.removed = @ \cup
            {j \in (fr.i + 1)..fr.len :
                j <= Len(fr.snap) /\ fr.snap[j].id \in LiveIds(R) \ LiveIds(R2)}]
    ELSE fr

-----------------------------------------------------------------------------
(* The state after construction *)

\* The last call made from outside a dispatch: the method, the key of its
\* event, the value returned (list: the array listeners returned), and as
\* history the records it took out of the registry and, when an emit raised,
\* what raised: the loop body itself ("body") or the callback ("callback").
NoCall ==
    [op |-> "none", key |-> <<>>, val |-> Undefined, list |-> <<>>, gone |-> {},
     raised |-> "none"]

Called(op, key, val, list, gone) ==
    [op |-> op, key |-> key, val |-> val, list |-> list, gone |-> gone,
     raised |-> "none"]

\* Object.create is a function in every ES5 engine: prefix is false and the
\* registry is Object.create(null).
Init ==
    /\ events = <<>>
    /\ proto = FALSE
    /\ prefixed = <<>>
    /\ stack = <<>>
    /\ last = NoCall
    /\ nextId = 1
    /\ log = <<>>
    /\ fired = [k \in 1..MaxRegs |-> 0]
    /\ touched = FALSE

Idle == stack = <<>>

\* A top-level call that is no emit: the registry after it, the value returned.
TopLevel(op, ev, r) ==
    /\ events' = r.reg.events
    /\ proto' = r.reg.proto
    /\ last' = Called(op, getEventName(prefixed, ev), r.ret, <<>>,
                      LiveIds(Registry) \ LiveIds(r.reg))
    /\ log' = <<>>
    /\ touched' = FALSE
    /\ UNCHANGED <<prefixed, stack, fired>>

-----------------------------------------------------------------------------
(* The calls made from outside a dispatch *)

On(ev, fn, ctx) ==
    /\ Idle /\ nextId <= MaxRegs
    /\ TopLevel("on", ev, OnCall(Registry, nextId, ev, fn, ctx, FALSE))
    /\ nextId' = nextId + 1

AddListener(ev, fn, ctx) ==
    /\ Idle /\ nextId <= MaxRegs
    /\ TopLevel("addListener", ev, AddListenerCall(Registry, nextId, ev, fn, ctx))
    /\ nextId' = nextId + 1

Once(ev, fn, ctx) ==
    /\ Idle /\ nextId <= MaxRegs
    /\ TopLevel("once", ev, OnCall(Registry, nextId, ev, fn, ctx, TRUE))
    /\ nextId' = nextId + 1

Off(ev, fn, ctx, once) ==
    /\ Idle
    /\ TopLevel("off", ev, OffCall(Registry, ev, fn, ctx, once))
    /\ UNCHANGED nextId

RemoveListener(ev, fn, ctx, once) ==
    /\ Idle
    /\ TopLevel("removeListener", ev, RemoveListenerCall(Registry, ev, fn, ctx, once))
    /\ UNCHANGED nextId

RemoveAllListeners(ev) ==
    /\ Idle
    /\ TopLevel("removeAllListeners", ev, RemoveAllCall(Registry, ev))
    /\ UNCHANGED nextId

Listeners(ev, exists) ==
    LET r == ListenersCall(Registry, ev, exists)
    IN  /\ Idle
        /\ last' = Called("listeners", getEventName(prefixed, ev), r.val, r.list, {})
        /\ log' = <<>>
        /\ touched' = FALSE
        /\ UNCHANGED <<events, proto, prefixed, stack, nextId, fired>>

\* emit(ev, args) up to the loop: false at once without listeners, else the
\* call is in progress with its frame on the stack.
Emit(ev, args) ==
    LET key == getEventName(prefixed, ev)
        cur == Lookup(Registry, key)
    IN  /\ Idle
        /\ IF cur.kind = "undefined"
           THEN /\ last' = Called("emit", key, EmitNoListeners, <<>>, {})
                /\ stack' = stack
           ELSE /\ last' = Called("emit", key, "pending", <<>>, {})
                /\ stack' = <<Frame(key, cur, args)>>
        /\ log' = <<>>
        /\ touched' = FALSE
        /\ UNCHANGED <<events, proto, prefixed, nextId, fired>>

-----------------------------------------------------------------------------
(* The loop of emit, one iteration a step *)

Top == stack[Len(stack)]

\* A loop test that reads the length of the array at every turn.
LoopCondLive(fr) == fr.i < Len(fr.snap)

\* The loop test: i < len, with len read once before the loop.
LoopCond(fr) == fr.i < fr.len

Looping == stack # <<>> /\ LoopCond(Top)

\* What the log keeps of an invocation: the record, the receiver and the
\* arguments of fn.call / fn.apply, and whether the record was in the registry
\* when the loop came to it.
Invocation(l, fr) ==
    [id |-> l.id, fn |-> l.fn, ctx |-> l.ctx, args |-> Forwarded(fr.args),
     live |-> l.id \in LiveIds(Registry)]

\* The frames when the callback of the innermost loop starts: the loop body
\* has run up to the call (result b) and i counts the record as taken.
Advanced(b) ==
    [d \in 1..Len(stack) |->
        IF d = Len(stack) THEN [Track(stack[d], b) EXCEPT !.i = @ + 1]
        ELSE Track(stack[d], b)]

\* The callback of the record at hand is invoked: history.  log keeps the
\* invocations of the outermost loop, fired counts those of one-shot records.
Invoke ==
    LET l == NextListener(Top)
    IN  /\ log' = IF Len(stack) = 1 THEN Append(log, Invocation(l, Top)) ELSE log
        /\ fired' = IF l.once THEN [fired EXCEPT ![l.id] = @ + 1] ELSE fired

\* The history of a dispatch (log, fired, touched) ends with the outermost
\* emit call: the records it went through are out of every loop by then.
NoHistory ==
    /\ log' = <<>>
    /\ fired' = [k \in DOMAIN fired |-> 0]
    /\ touched' = FALSE

\* An emit whose caller, a callback, catches what it raises: the loop of the
\* caller goes on.
UnwindCaught(R, by) ==
    /\ events' = R.events
    /\ proto' = R.proto
    /\ stack' = SubSeq(stack, 1, Len(stack) - 1)
    /\ IF Len(stack) = 1
       THEN last' = [last EXCEPT !.val = TypeError, !.raised = by] /\ NoHistory
       ELSE UNCHANGED <<last, log, fired, touched>>
    /\ UNCHANGED prefixed

\* A TypeError leaves every emit call in progress (no callback catches it).
Unwind(R, by) ==
    /\ events' = R.events
    /\ proto' = R.proto
    /\ stack' = <<>>
    /\ last' = [last EXCEPT !.val = TypeError, !.raised = by]
    /\ NoHistory
    /\ UNCHANGED prefixed

\* The loop body raises before it has invoked a callback.
Raise ==
    LET b == BeforeCall(Registry, Top)
    IN  /\ Looping
        /\ b.ret = TypeError
        /\ Unwind(b.reg, "body")
        /\ UNCHANGED nextId

\* The callback runs and does not call the emitter.
InvokeQuiet ==
    LET b == BeforeCall(Registry, Top)
    IN  /\ Looping
        /\ b.ret = "call"
        /\ Invoke
        /\ events' = b.reg.events
        /\ proto' = b.reg.proto
        /\ stack' = Advanced(b)
        /\ UNCHANGED <<prefixed, last, nextId, touched>>

\* The callback runs and makes registry call c (on, once, off or
\* removeAllListeners); a TypeError of that call is not caught.
InvokeCalling(c) ==
    LET b == BeforeCall(Registry, Top)
        r == Apply(b.reg, nextId, c)
    IN  /\ Looping
        /\ b.ret = "call"
        /\ NextListener(Top).fn = Active
        /\ IsReg(c) => nextId <= MaxRegs
        /\ nextId' = IF IsReg(c) THEN nextId + 1 ELSE nextId
        /\ IF r.ret = TypeError
           THEN Unwind(r.reg, "callback")
           ELSE /\ Invoke
                /\ touched' = TRUE
                /\ events' = r.reg.events
                /\ proto' = r.reg.proto
                /\ stack' = [d \in 1..Len(stack) |->
                                Track(NoteRemoved(Advanced(b)[d], c, b.reg, r.reg), r)]
                /\ UNCHANGED <<prefixed, last>>

\* The callback runs and calls emit(c.ev, c.args) itself.
InvokeEmitting(c) ==
    LET b == BeforeCall(Registry, Top)
        key == getEventName(prefixed, c.ev)
        cur == Lookup(b.reg, key)
    IN  /\ Looping
        /\ b.ret = "call"
        /\ NextListener(Top).fn = Active
        /\ Len(stack) < MaxDepth
        /\ Invoke
        /\ touched' = TRUE
        /\ events' = b.reg.events
        /\ proto' = b.reg.proto
        /\ stack' = IF cur.kind = "undefined" THEN Advanced(b)
                    ELSE Append(Advanced(b), Frame(key, cur, c.args))
        /\ UNCHANGED <<prefixed, last, nextId>>

\* The loop has ended: emit returns true to its caller.
Return ==
    /\ stack # <<>>
    /\ ~LoopCond(Top)
    /\ stack' = SubSeq(stack, 1, Len(stack) - 1)
    /\ IF Len(stack) = 1
       THEN last' = [last EXCEPT !.val = EmitDone] /\ NoHistory
       ELSE UNCHANGED <<last, log, fired, touched>>
    /\ UNCHANGED <<events, proto, prefixed, nextId>>

-----------------------------------------------------------------------------

Next ==
    \/ \E ev \in Events, a \in RegArgs : On(ev, a[1], a[2])
    \/ \E ev \in Events, a \in RegArgs : AddListener(ev, a[1], a[2])
    \/ \E ev \in Events, a \in RegArgs : Once(ev, a[1], a[2])
    \/ \E ev \in Events, fn \in FnArgs, ctx \in CtxArgs, once \in BOOLEAN :
          Off(ev, fn, ctx, once)
    \/ \E ev \in Events, fn \in FnArgs, ctx \in CtxArgs, once \in BOOLEAN :
          RemoveListener(ev, fn, ctx, once)
    \/ \E ev \in Events \cup {NoEvent} : RemoveAllListeners(ev)
    \/ \E ev \in Events, exists \in BOOLEAN : Listeners(ev, exists)
    \/ \E ev \in Events, args \in ArgLists : Emit(ev, args)
    \/ Raise
    \/ InvokeQuiet
    \/ \E c \in RegOps \cup OffOps \cup RemoveAllOps : InvokeCalling(c)
    \/ \E c \in EmitOps : InvokeEmitting(c)
    \/ Return

Spec == Init /\ [][Next]_vars

-----------------------------------------------------------------------------
(* The empty string as an event identifier *)

\* '' is a property name like any other: _on, off and emit read and write
\* this._events[''].  It is falsy, which the tests on ev in listeners and
\* removeAllListeners see.
EvEmpty == <<>>

AllEvents == Events \cup {EvEmpty}

\* The calls made from outside a dispatch with '' as the event, besides those
\* of Next (removeAllListeners('') is the step RemoveAllListeners(NoEvent)).
NextEmptyName ==
    \/ Next
    \/ \E a \in RegArgs : On(EvEmpty, a[1], a[2])
    \/ \E a \in RegArgs : Once(EvEmpty, a[1], a[2])
    \/ \E fn \in FnArgs, ctx \in CtxArgs, once \in BOOLEAN : Off(EvEmpty, fn, ctx, once)
    \/ \E exists \in BOOLEAN : Listeners(EvEmpty, exists)
    \/ \E args \in ArgLists : Emit(EvEmpty, args)

SpecEmptyName == Init /\ [][NextEmptyName]_vars

-----------------------------------------------------------------------------
(* The emitter of an engine without Object.create *)

\* Where Object.create is no function when the module is loaded, prefix is
\* '~': the registry is {} and this.prefixed is '~'.
InitPrefixed ==
    /\ events = <<>>
    /\ proto = TRUE
    /\ prefixed = <<"~">>
    /\ stack = <<>>
    /\ last = NoCall
    /\ nextId = 1
    /\ log = <<>>
    /\ fired = [k \in 1..MaxRegs |-> 0]
    /\ touched = FALSE

\* An identifier that begins with the prefix.
EvTildeX == <<"~", "x">>

PrefixedEvents == Events \cup {EvTildeX}

\* The calls of Next, and those made from outside a dispatch with '~x' as the
\* event.
NextPrefixed ==
    \/ Next
    \/ \E a \in RegArgs : On(EvTildeX, a[1], a[2])
    \/ \E a \in RegArgs : Once(EvTildeX, a[1], a[2])
    \/ \E fn \in FnArgs, ctx \in CtxArgs, once \in BOOLEAN : Off(EvTildeX, fn, ctx, once)
    \/ RemoveAllListeners(EvTildeX)
    \/ \E exists \in BOOLEAN : Listeners(EvTildeX, exists)
    \/ \E args \in ArgLists : Emit(EvTildeX, args)

SpecPrefixed == InitPrefixed /\ [][NextPrefixed]_vars

-----------------------------------------------------------------------------
(* emit with any number of arguments *)

\* The longest argument list given to emit, beyond the five named parameters.
MaxArgs == 6

\* n arguments, told apart by their values.
ArgsOfLen(n) == [k \in 1..n |-> k]

ArgListsOfAnyLength == {ArgsOfLen(n) : n \in 0..MaxArgs}

\* Registration of a callback, emit called from outside a dispatch with 0 to
\* MaxArgs arguments, and the loop of emit with all that callbacks may do.
NextAnyArgs ==
    \/ \E ev \in Events, fn \in Callbacks : On(ev, fn, Undefined)
    \/ \E ev \in Events, fn \in Callbacks : Once(ev, fn, Undefined)
    \/ \E ev \in Events, args \in ArgListsOfAnyLength : Emit(ev, args)
    \/ InvokeQuiet
    \/ \E c \in RegOps \cup OffOps \cup RemoveAllOps : InvokeCalling(c)
    \/ \E c \in EmitOps : InvokeEmitting(c)
    \/ Return

SpecAnyArgs == Init /\ [][NextAnyArgs]_vars

-----------------------------------------------------------------------------
(* Claims *)

\* The record the innermost loop is about to take, read from the frame itself.
AtHand == Top.snap[Top.i + 1]

\* C1: a listener registered with once is invoked exactly once in total across
\* any number of emit calls, re-entrant ones included, and is absent from the
\* registry (so from listeners(e)) right after that invocation.
C1_OnceFiresExactlyOnce ==
    \A k \in 1..MaxRegs :
        /\ fired[k] <= 1
        /\ fired[k] >= 1 => k \notin LiveIds(Registry)

\* C2: a listener that a callback removed with off during emit(e), before this
\* dispatch had invoked it, is not invoked later by that same emit(e) call.
C2_RemovedNotInvoked ==
    [][(Looping /\ Top.i + 1 \in Top.removed)
        => ~(stack' # <<>> /\ Len(stack') >= Len(stack)
             /\ stack'[Len(stack)].i = Top.i + 1)]_vars

\* C2, amended: such a listener has left the registry, so that no emit call
\* begun afterwards invokes it, but the emit(e) call in progress still invokes
\* it when its loop comes to it (the call the callback makes may raise): the
\* loop goes through the array emit read at its start, which off does not
\* change.
C2_RemovedStillInvoked ==
    [][(Looping /\ Top.i + 1 \in Top.removed)
        => /\ Top.i + 1 <= Len(Top.snap)
           /\ AtHand.id \notin LiveIds(Registry)
           /\ \/ stack' = stack
              \/ ~Truthy(AtHand.fn)
              \/ /\ Len(stack) = 1 => log' = Append(log, Invocation(AtHand, Top))
                 /\ AtHand.once => fired'[AtHand.id] = fired[AtHand.id] + 1
                 /\ Len(stack') >= Len(stack)
                 /\ stack'[Len(stack)].i = Top.i + 1
              \/ /\ BeforeCall(Registry, Top).ret = "call"
                 /\ stack' = <<>> /\ last'.val = TypeError]_vars

\* A removed listener has been invoked by the outermost loop all the same.
C2_Witness ==
    /\ Len(stack) = 1
    /\ \E k \in stack[1].removed :
          /\ k <= Len(log)
          /\ log[k].id = stack[1].snap[k].id
          /\ ~log[k].live

KeyOf(ev) == getEventName(prefixed, ev)

Registered(ev) == KeyOf(ev) \in DOMAIN events

\* C3: an event named like a property every object inherits ("toString") is
\* an event like any other in every reachable state, also after
\* removeAllListeners(): while no listener is registered for it, emit returns
\* false, listeners(name, true) is false, and on(name, f) registers f without
\* an error.
C3_InheritedNameIsOrdinary ==
    [][\A ev \in Events : ~Registered(ev) =>
        /\ (\E a \in ArgLists : Emit(ev, a)) => last'.val = EmitNoListeners
        /\ Listeners(ev, TRUE) => last'.val = "false"
        /\ \A fn \in Callbacks, ctx \in CtxArgs :
              On(ev, fn, ctx) =>
                 /\ last'.val = This
                 /\ KeyOf(ev) \in DOMAIN events'
                 /\ FnsOf(events'[KeyOf(ev)]) = <<fn>>]_vars

\* C5: off and its alias removeListener return the emitter in every case, also
\* when the event has no listeners.
C5_OffReturnsEmitter ==
    [][\A ev \in Events, fn \in FnArgs, ctx \in CtxArgs, once \in BOOLEAN :
          (Off(ev, fn, ctx, once) \/ RemoveListener(ev, fn, ctx, once))
             => last'.val = This]_vars

\* C6: right after removeAllListeners() without an argument, for every event
\* that had listeners, emit returns false (it does not enter its loop) and
\* listeners(event, true) is false.
C6_ClearedEventHasNoListeners ==
    [][RemoveAllListeners(NoEvent) =>
          \A ev \in Events : Registered(ev) =>
             /\ Lookup(Registry', KeyOf(ev)).kind = "undefined"
             /\ ListenersCall(Registry', ev, TRUE).val = "false"]_vars

\* C8: a registration call without a callback fails at that call and leaves the
\* registry as it was, so that no record without a callback is ever stored for
\* a later emit to fail on.
C8_MissingCallbackFailsAtOnce ==
    [][\A ev \in Events, ctx \in CtxArgs :
          (On(ev, Undefined, ctx) \/ Once(ev, Undefined, ctx)
              \/ AddListener(ev, Undefined, ctx))
             => last'.val = TypeError /\ events' = events]_vars

\* C10: emit(e) returns false, invokes nothing and leaves the registry as it
\* is exactly when no listener is registered for e at the call; an emit whose
\* loop ends (no callback raised) returns true.
C10_EmitFalseIffNoListeners ==
    [][/\ \A ev \in Events, a \in ArgLists : Emit(ev, a) =>
             /\ last'.val = EmitNoListeners <=> ~Registered(ev)
             /\ last'.val = EmitNoListeners =>
                   stack' = <<>> /\ log' = <<>> /\ events' = events
       /\ (Return /\ Len(stack) = 1) => last'.val = "true"]_vars

\* The array registered under a key, empty when the key is absent.
SeqOf(E, key) == IF key \in DOMAIN E THEN E[key] ELSE <<>>

\* Registration appends: a call that succeeds adds one record behind those of
\* its event, with the callback, the one-shot flag, and the context given or
\* the emitter when none was given.
C4_Registers ==
    (Idle /\ last'.op \in {"on", "addListener", "once"} /\ last'.val = This) =>
    \A ev \in Events, fn \in FnArgs, ctx \in CtxArgs, once \in BOOLEAN :
        (IF once THEN Once(ev, fn, ctx)
                 ELSE On(ev, fn, ctx) \/ AddListener(ev, fn, ctx))
        => SeqOf(events', KeyOf(ev)) =
              Append(SeqOf(events, KeyOf(ev)),
                     [id |-> nextId, fn |-> fn, once |-> once,
                      ctx |-> IF ctx = Undefined THEN This ELSE ctx])

\* emit goes through the records registered for the event when it is called.
C4_Reads ==
    (Idle /\ last'.op = "emit") =>
    \A ev \in Events, a \in ArgLists :
        (Emit(ev, a) /\ Registered(ev))
        => /\ Len(stack') = 1
           /\ stack'[1].snap = events[KeyOf(ev)]
           /\ stack'[1].len = Len(events[KeyOf(ev)])
           /\ stack'[1].i = 0

\* While no callback has called the emitter, the invocations made so far are
\* those of the first i records, in their order, each with its own context.
C4_Dispatches ==
    (Len(stack) = 1 /\ ~touched) =>
        /\ Len(log) = stack[1].i
        /\ stack[1].i <= stack[1].len
        /\ \A k \in 1..Len(log) :
              /\ log[k].id = stack[1].snap[k].id
              /\ log[k].fn = stack[1].snap[k].fn
              /\ log[k].ctx = stack[1].snap[k].ctx
              /\ log[k].args = stack[1].args
        /\ \A j, k \in 1..stack[1].len :
              j < k => stack[1].snap[j].id < stack[1].snap[k].id

\* C4: after on/once calls, emit(e, args) with callbacks that leave the emitter
\* alone invokes every record registered for e, once per record, in
\* registration order, each with its registered context as receiver, or the
\* emitter when none was given.
C4_EmitInvokesEachInOrder ==
    []C4_Dispatches /\ [][C4_Registers /\ C4_Reads]_vars

\* One callback registered twice, with and without a context, has been invoked
\* twice by one emit.
C4_Witness ==
    /\ Len(stack) = 1 /\ ~touched
    /\ stack[1].i = 2 /\ stack[1].len = 2 /\ Len(log) = 2
    /\ log[1].fn = log[2].fn
    /\ log[1].ctx = "c1" /\ log[2].ctx = This

\* The records off(e, fn, ctx, onlyOnce) is to remove.
Matches(l, fn, ctx, once) ==
    \/ fn = Undefined
    \/ /\ l.fn = fn
       /\ ctx # Undefined => l.ctx = ctx
       /\ once => l.once

Unmatched(arr, fn, ctx, once) ==
    LET Keep(l) == ~Matches(l, fn, ctx, once)
    IN  SelectSeq(arr, Keep)

\* C7: off(e, fn, ctx, onlyOnce) removes exactly the records of e whose
\* callback is fn, whose context is ctx when one is given and which are
\* one-shot when onlyOnce is set; the others stay in their order; off(e)
\* without a callback removes every record of e.
\* Stated of the call off(e, fn, ctx, onlyOnce) made in any reachable state of
\* the registry, between calls or from a callback.
C7_OffRemovesExactlyMatching ==
    \A ev \in Events, fn \in FnArgs, ctx \in CtxArgs, once \in BOOLEAN :
        LET after == OffCall(Registry, ev, fn, ctx, once).reg.events
        IN  SeqOf(after, KeyOf(ev)) =
               Unmatched(SeqOf(events, KeyOf(ev)), fn, ctx, once)

\* An off call has removed a record of an event and kept another one.
C7_Witness ==
    /\ last.op = "off" /\ last.val = This
    /\ last.gone # {}
    /\ last.key \in DOMAIN events

\* C9: a one-shot record is out of the registry when its callback starts and
\* stays out; an emit call its callback makes, of its own event or another,
\* does not go through that record again, so that it cannot recurse through
\* itself.
C9_OneShotNotReentered ==
    \A d \in 1..Len(stack) : \A k \in 1..stack[d].i :
        (k <= Len(stack[d].snap) /\ stack[d].snap[k].once) =>
            /\ stack[d].snap[k].id \notin LiveIds(Registry)
            /\ k = stack[d].i =>
                  \A d2 \in (d + 1)..Len(stack) :
                      stack[d].snap[k].id \notin IdsOf(stack[d2].snap)

\* The callback of a one-shot record has emitted its own event, for which
\* another listener is registered: a nested loop is in progress.
C9_Witness ==
    /\ Len(stack) = 2
    /\ stack[1].i >= 1
    /\ stack[1].snap[stack[1].i].once
    /\ stack[2].key = stack[1].key
    /\ stack[2].len >= 1

\* C11: listeners(e) returns the callbacks of the records registered for e, in
\* registration order (an empty array when there are none), and
\* listeners(e, true) is true exactly when that array is not empty.
C11_ListenersReturnsCallbacks ==
    \A ev \in AllEvents :
        LET r == ListenersCall(Registry, ev, FALSE)
            x == ListenersCall(Registry, ev, TRUE)
        IN  /\ r.val = "array"
            /\ r.list = FnsOf(SeqOf(events, KeyOf(ev)))
            /\ x.val = "true" <=> r.list # <<>>

\* C12: removeAllListeners(e) with an event identifier e, the empty string
\* included, deletes the key of e and leaves every other key and its array as
\* they were.
C12_RemoveAllOfOneEvent ==
    [][\A ev \in AllEvents :
          RemoveAllListeners(ev) =>
             /\ DOMAIN events' = DOMAIN events \ {KeyOf(ev)}
             /\ \A k \in DOMAIN events' : events'[k] = events[k]]_vars

C14_AliasesAreSynonyms ==
    /\ \A ev \in Events, fn \in FnArgs, ctx \in CtxArgs :
          LET alias == AddListenerCall(Registry, nextId, ev, fn, ctx)
              r == OnCall(Registry, nextId, ev, fn, ctx, FALSE)
          IN  alias.reg = r.reg /\ alias.ret = r.ret
    /\ \A ev \in Events, fn \in FnArgs, ctx \in CtxArgs, once \in BOOLEAN :
          LET alias == RemoveListenerCall(Registry, ev, fn, ctx, once)
              r == OffCall(Registry, ev, fn, ctx, once)
          IN  alias.reg = r.reg /\ alias.ret = r.ret

\* removeListener has removed a record of an event and kept another one.
C14_Witness ==
    /\ last.op = "removeListener" /\ last.val = This
    /\ last.gone # {}
    /\ last.key \in DOMAIN events

\* What every emit call in progress goes through is what was registered for
\* its event when it was called; the outermost call has invoked the first i of
\* these records, in their order.
C15_IteratesCalled ==
    /\ \A d \in 1..Len(stack) :
          /\ stack[d].i <= stack[d].len
          /\ stack[d].len = Len(stack[d].called)
          /\ Len(stack[d].snap) >= stack[d].len
          /\ SubSeq(stack[d].snap, 1, stack[d].len) = stack[d].called
    /\ stack # <<>> =>
          /\ Len(log) = stack[1].i
          /\ \A k \in 1..Len(log) :
                /\ log[k].id = stack[1].called[k].id
                /\ log[k].fn = stack[1].called[k].fn

\* A record a callback registers during a dispatch is in the registry after
\* the call, behind the records of its event, and in no dispatch in progress.
C15_AddedForNextEmit ==
    \A c \in RegOps :
        (InvokeCalling(c) /\ stack' # <<>>) =>
            /\ KeyOf(c.ev) \in DOMAIN events'
            /\ events'[KeyOf(c.ev)][Len(events'[KeyOf(c.ev)])].id = nextId
            /\ \A d \in 1..Len(stack') : nextId \notin IdsOf(stack'[d].called)

\* C15: one emit(e) call dispatches exactly the records registered for e when
\* it was called, in that order, whatever the callbacks do meanwhile: a record
\* added by a callback is not invoked by that call but is registered for the
\* next one, and a removal by a callback does not change what the call goes
\* through.
C15_DispatchesSnapshot ==
    []C15_IteratesCalled /\ [][C15_AddedForNextEmit]_vars

\* The outermost loop has ended having invoked the records registered at the
\* call, while a record a callback added to the event is in the registry and
\* was not invoked.
C15_Witness ==
    /\ Len(stack) = 1
    /\ stack[1].len >= 1 /\ stack[1].i = stack[1].len
    /\ Len(log) = stack[1].len
    /\ \E id \in IdsOf(SeqOf(events, stack[1].key)) :
          /\ id \notin IdsOf(stack[1].called)
          /\ \A k \in 1..Len(log) : log[k].id # id

\* C16: when a callback raises during emit(e) (here: a call it makes on the
\* emitter raises and it does not catch it), the error leaves emit and every
\* emit call around it: no loop goes on to a later record, emit does not
\* return true, and the record of the callback, when one-shot, is out of the
\* registry.
C16_RaiseAbortsDispatch ==
    [][\A c \in RegOps \cup OffOps \cup RemoveAllOps :
          (/\ InvokeCalling(c)
           /\ Apply(BeforeCall(Registry, Top).reg, nextId, c).ret = TypeError)
          => /\ stack' = <<>>
             /\ last'.val = TypeError
             /\ last'.val # EmitDone
             /\ AtHand.once => AtHand.id \notin LiveIds(Registry')]_vars

\* The callback of a one-shot record has raised and emit has been left.
C16_Witness ==
    /\ stack = <<>>
    /\ last.op = "emit" /\ last.val = TypeError /\ last.raised = "callback"
    /\ nextId > 1 /\ LiveIds(Registry) = {}

\* C17: when the loop of emit comes to a one-shot record with a callback, the
\* off call it makes takes that record out of the registry and no other one:
\* not a second once registration of the same callback and context that has
\* not been dispatched itself.
C17_ConsumesThatRecordOnly ==
    (Looping /\ IsListener(NextListener(Top)) /\ NextListener(Top).once
        /\ Truthy(NextListener(Top).fn))
    => LiveIds(Registry) \ LiveIds(ConsumeOnce(Registry, Top.key, NextListener(Top)).reg)
          \subseteq {NextListener(Top).id}

\* C18: in every reachable state, those a callback sees in the middle of a
\* dispatch included, every key of the registry is bound to an array with at
\* least one record; an event without listeners has no key.
C18_NoEmptyArray ==
    \A key \in DOMAIN events : Len(events[key]) > 0

\* In the middle of a dispatch of an event, the last record of that event has
\* been removed and its key is gone.
C18_Witness ==
    /\ stack # <<>>
    /\ Top.called # <<>>
    /\ Top.i < Top.len
    /\ Top.key \notin DOMAIN events

\* The records of an array that are not one-shot.
Persistent(arr) ==
    LET Stays(l) == ~l.once
    IN  SelectSeq(arr, Stays)

\* on, once, off and emit, called from outside a dispatch for an event, leave
\* the array of every other key as it was.
C19_OtherEventsUntouched ==
    (Idle /\ last'.op \in {"on", "once", "off", "emit"}) =>
        \A key \in (DOMAIN events \cup DOMAIN events') \ {last'.key} :
            SeqOf(events', key) = SeqOf(events, key)

\* An iteration of emit(e) whose callbacks have not called the emitter leaves
\* the other keys as they were and takes only one-shot records from e, the
\* records left being in the order they were in.
C19_OnlyOneShotsLeave ==
    (Len(stack) = 1 /\ ~touched /\ ~touched') =>
        LET e == stack[1].key
            old == SeqOf(events, e)
            new == SeqOf(events', e)
        IN  /\ \A key \in (DOMAIN events \cup DOMAIN events') \ {e} :
                  SeqOf(events', key) = SeqOf(events, key)
            /\ Persistent(new) = Persistent(old)
            /\ IdsOf(new) \subseteq IdsOf(old)
            /\ \A j, k \in 1..Len(new) : j < k => new[j].id < new[k].id

\* C19: on, once, off and emit applied to an event leave the records of every
\* other event as they were, and emit(e) with callbacks that leave the emitter
\* alone changes the records of e only by removing one-shot records, the
\* others keeping their order.
C19_FrameOfEachCall ==
    [][C19_OtherEventsUntouched /\ C19_OnlyOneShotsLeave]_vars

\* C20: with the prefix '~' in use, getEventName gives different identifiers
\* different keys, so that registering a listener under one identifier leaves
\* what listeners returns for every other identifier, and what emit would go
\* through, as it was.
C20_PrefixedNamesDistinct ==
    [][(Idle /\ prefixed = <<"~">> /\ last'.op \in {"on", "once"} /\ last'.val = This) =>
          \A e1 \in PrefixedEvents, a \in RegArgs :
             (On(e1, a[1], a[2]) \/ Once(e1, a[1], a[2])) =>
                \A e2 \in PrefixedEvents \ {e1} :
                   /\ getEventName(prefixed, e1) # getEventName(prefixed, e2)
                   /\ ListenersCall(Registry', e2, FALSE) = ListenersCall(Registry, e2, FALSE)
                   /\ Lookup(Registry', KeyOf(e2)) = Lookup(Registry, KeyOf(e2))]_vars

====
